---- MODULE Spec2Model ----
(***************************************************************************)
(* Model of the field reconciliation engine of compare_utils.py: the       *)
(* record normaliser (_normalize_record), the value normalisers            *)
(* (_normalize_amount, _normalize_company, the identifier core) and the    *)
(* comparator (compare_records), as a state machine whose steps are the    *)
(* statements of compare_records.                                          *)
(*                                                                         *)
(* Python strings are TLA+ strings; a character is a string of length 1.   *)
(* Python dicts are sequences of <<key, value>> pairs in insertion order;  *)
(* None is the model value NONE.                                           *)
(*                                                                         *)
(* The last part models one "Fetch & Process Emails" run of main_app.py    *)
(* over the IMAP integration of email_utils_imap.py.                       *)
(***************************************************************************)
EXTENDS Integers, Sequences, FiniteSets, TLC

VARIABLES inv, po, inv_n, po_n, pc, fields, rows, mismatches, result, first,
          inbox, session, invoices, pos, processed, csv

\* the state of the email automation: the server's inbox, the settings of the
\* session, the two lists fetched, the documents processed and the master CSV
emailVars == <<inbox, session, invoices, pos, processed, csv>>

vars == <<inv, po, inv_n, po_n, pc, fields, rows, mismatches, result, first, emailVars>>

\* no email automation is running
NoEmail ==
    /\ inbox = <<>> /\ session = [unset |-> TRUE]
    /\ invoices = <<>> /\ pos = <<>> /\ processed = <<>> /\ csv = <<>>

(***************************************************************************)
(* Characters and the str methods the code uses.                           *)
(***************************************************************************)
NONE == [none |-> TRUE]

At(s, i) == SubSeq(s, i, i)

CharsOf(s) == {At(s, i) : i \in 1..Len(s)}

UpperStr == "ABCDEFGHIJKLMNOPQRSTUVWXYZ"

LowerStr == "abcdefghijklmnopqrstuvwxyz"

DigitStr == "0123456789"

Upper == CharsOf(UpperStr)

Lower == CharsOf(LowerStr)

Digit == CharsOf(DigitStr)

\* what \s matches and str.strip() strips
Whitespace == {" ", "\t", "\n", "\r", "\f"}

\* what \w matches; \b is a change of membership in this set
WordChar == Upper \cup Lower \cup Digit \cup {"_"}

\* the characters in code point order (the backquote left out), for sorted()
AsciiStr == "\t\n\f\r !\"#$%&'()*+,-./0123456789:;<=>?@ABCDEFGHIJKLMNOPQRSTUVWXYZ[\\]^_abcdefghijklmnopqrstuvwxyz{|}~"

IndexIn(str, c) == CHOOSE i \in 1..Len(str) : At(str, i) = c

ord(c) == IndexIn(AsciiStr, c)

lowerChar(c) == IF c \in Upper THEN At(LowerStr, IndexIn(UpperStr, c)) ELSE c

Min(a, b) == IF a < b THEN a ELSE b

Max(a, b) == IF a > b THEN a ELSE b

\* the least and the greatest member of a non-empty set of integers
LeastOf(S) == CHOOSE i \in S : \A j \in S : i <= j

GreatestOf(S) == CHOOSE i \in S : \A j \in S : i >= j

\* the least i in lo..hi with P(i), and hi + 1 when there is none
FirstIn(lo, hi, P(_)) == LeastOf({i \in lo..hi : P(i)} \cup {hi + 1})

\* the greatest i in lo..hi with P(i), and lo - 1 when there is none
LastIn(lo, hi, P(_)) == GreatestOf({i \in lo..hi : P(i)} \cup {lo - 1})

\* "".join(ps[lo..hi]), the two halves joined
RECURSIVE JoinRange(_, _, _)
JoinRange(ps, lo, hi) ==
    IF lo > hi THEN ""
    ELSE IF lo = hi THEN ps[lo]
    ELSE JoinRange(ps, lo, (lo + hi) \div 2) \o JoinRange(ps, ((lo + hi) \div 2) + 1, hi)

Join(ps) == JoinRange(ps, 1, Len(ps))

lower(s) == Join([i \in 1..Len(s) |-> lowerChar(At(s, i))])

lstrip(s) == SubSeq(s, FirstIn(1, Len(s), LAMBDA i : At(s, i) \notin Whitespace), Len(s))

rstrip(s) == SubSeq(s, 1, LastIn(1, Len(s), LAMBDA i : At(s, i) \notin Whitespace))

strip(s) == lstrip(rstrip(s))

startswith(s, prefix) == Len(s) >= Len(prefix) /\ SubSeq(s, 1, Len(prefix)) = prefix

\* str.splitlines() on text whose only line break is "\n": the k-th line runs
\* from after the (k-1)-th line break to before the k-th; a final line break
\* ends the last line and starts none
splitlines(s) ==
    LET nl == {i \in 1..Len(s) : At(s, i) = "\n"}
        brk(k) == IF k = 0 THEN 0
                  ELSE IF k > Cardinality(nl) THEN Len(s) + 1
                  ELSE CHOOSE i \in nl : Cardinality({j \in nl : j < i}) = k - 1
        n == IF s = "" THEN 0
             ELSE IF At(s, Len(s)) = "\n" THEN Cardinality(nl) ELSE Cardinality(nl) + 1
    IN  [k \in 1..n |-> SubSeq(s, brk(k - 1) + 1, brk(k) - 1)]

\* s < t as Python orders strings: by code point at the first difference, a
\* proper prefix first
LessAt(s, t, d) ==
    IF d > Min(Len(s), Len(t)) THEN Len(s) < Len(t) ELSE ord(At(s, d)) < ord(At(t, d))

strLess(s, t) == LessAt(s, t, FirstIn(1, Min(Len(s), Len(t)), LAMBDA i : At(s, i) # At(t, i)))

\* sorted() of a set of strings: the k-th has k - 1 strings below it
sorted(S) ==
    [k \in 1..Cardinality(S) |-> CHOOSE x \in S : Cardinality({y \in S : strLess(y, x)}) = k - 1]

(***************************************************************************)
(* The re module: a pattern is a tree, and ReM yields the positions a      *)
(* backtracking matcher can reach from a position, in the order it tries   *)
(* them (greedy repetition first, alternatives left to right).  A match    *)
(* state is the next position p and the spans g of groups 1 and 2, each     *)
(* <<start, end>> with end exclusive and <<0, 0>> for a group not matched.  *)
(***************************************************************************)
Set(cs) == [t |-> "set", cs |-> cs, neg |-> FALSE]

NotSet(cs) == [t |-> "set", cs |-> cs, neg |-> TRUE]

ReSeq(rs) == [t |-> "seq", rs |-> rs]

Alt(rs) == [t |-> "alt", rs |-> rs]

\* r{lo,hi}, greedy; hi = -1 for no upper limit
Rep(r, lo, hi) == [t |-> "rep", r |-> r, lo |-> lo, hi |-> hi]

Grp(n, r) == [t |-> "grp", n |-> n, r |-> r]

WordBoundary == [t |-> "wb"]

\* ^ and $ under re.M
LineStart == [t |-> "bol"]

LineEnd == [t |-> "eol"]

\* a literal word; under re.I (ci) each letter matches in both cases
Lit(w) == [t |-> "lit", w |-> w, ci |-> FALSE]

IgnoreCase(cs) ==
    cs \cup {lowerChar(c) : c \in cs} \cup {At(UpperStr, IndexIn(LowerStr, c)) : c \in cs \cap Lower}

LitI(w) == [t |-> "lit", w |-> lower(w), ci |-> TRUE]

\* the sequences of ss[lo..hi] concatenated, the two halves joined
RECURSIVE ConcatRange(_, _, _)
ConcatRange(ss, lo, hi) ==
    IF lo > hi THEN <<>>
    ELSE IF lo = hi THEN ss[lo]
    ELSE ConcatRange(ss, lo, (lo + hi) \div 2) \o ConcatRange(ss, ((lo + hi) \div 2) + 1, hi)

ConcatAll(ss) == ConcatRange(ss, 1, Len(ss))

IsWord(s, i) == i >= 1 /\ i <= Len(s) /\ At(s, i) \in WordChar

\* how many characters from position p on are in the class c, up to hi of them
RunLen(c, s, p, hi) ==
    LET last == IF p + hi - 1 < Len(s) THEN p + hi - 1 ELSE Len(s)
    IN  FirstIn(p, last, LAMBDA i : (At(s, i) \in c.cs) = c.neg) - p

\* A repeated character class takes the longest run first and gives it back one
\* character at a time; any other repeated pattern is tried once more before not.
RECURSIVE ReM(_, _, _)
RECURSIVE ReSeqRange(_, _, _, _, _)
RECURSIVE ReRep(_, _, _, _, _)

ReM(r, s, st) ==
    CASE r.t = "set" ->
           IF st.p <= Len(s) /\ ((At(s, st.p) \in r.cs) # r.neg)
           THEN <<[st EXCEPT !.p = @ + 1]>> ELSE <<>>
      [] r.t = "lit" ->
           IF st.p + Len(r.w) - 1 <= Len(s)
              /\ (IF r.ci THEN lower(SubSeq(s, st.p, st.p + Len(r.w) - 1))
                  ELSE SubSeq(s, st.p, st.p + Len(r.w) - 1)) = r.w
           THEN <<[st EXCEPT !.p = @ + Len(r.w)]>> ELSE <<>>
      [] r.t = "seq" -> ReSeqRange(r.rs, 1, Len(r.rs), s, <<st>>)
      [] r.t = "alt" -> ConcatAll([i \in 1..Len(r.rs) |-> ReM(r.rs[i], s, st)])
      [] r.t = "rep" ->
           IF r.r.t = "set"
           THEN LET n == RunLen(r.r, s, st.p, IF r.hi < 0 THEN Len(s) ELSE r.hi)
                IN  [i \in 1..(n - r.lo + 1) |-> [st EXCEPT !.p = st.p + n - i + 1]]
           ELSE ReRep(r.r, r.lo, IF r.hi < 0 THEN Len(s) + 1 ELSE r.hi, s, st)
      [] r.t = "grp" ->
           LET ends == ReM(r.r, s, st)
           IN  [i \in 1..Len(ends) |-> [ends[i] EXCEPT !.g[r.n] = <<st.p, ends[i].p>>]]
      [] r.t = "wb" -> IF IsWord(s, st.p - 1) # IsWord(s, st.p) THEN <<st>> ELSE <<>>
      [] r.t = "bol" -> IF st.p = 1 \/ At(s, st.p - 1) = "\n" THEN <<st>> ELSE <<>>
      [] r.t = "eol" -> IF st.p = Len(s) + 1 \/ At(s, st.p) = "\n" THEN <<st>> ELSE <<>>

\* rs[lo..hi] one after the other from each of the states sts: the first half
\* of them, and the second half from where the first half ends
ReSeqRange(rs, lo, hi, s, sts) ==
    IF sts = <<>> \/ lo > hi THEN sts
    ELSE IF lo = hi THEN ConcatAll([k \in 1..Len(sts) |-> ReM(rs[lo], s, sts[k])])
    ELSE ReSeqRange(rs, ((lo + hi) \div 2) + 1, hi, s, ReSeqRange(rs, lo, (lo + hi) \div 2, s, sts))

ReRep(r, lo, hi, s, st) ==
    LET once == IF hi = 0 THEN <<>> ELSE SelectSeq(ReM(r, s, st), LAMBDA x : x.p > st.p)
        more == ConcatAll([k \in 1..Len(once) |->
                    ReRep(r, IF lo > 0 THEN lo - 1 ELSE 0, hi - 1, s, once[k])])
    IN  more \o (IF lo = 0 THEN <<st>> ELSE <<>>)

NoGroups == <<<<0, 0>>, <<0, 0>>>>

\* the match from position i that the matcher finds first among ends, if any:
\* [ok, start, end, g]
FirstEnd(i, ends) ==
    IF ends = <<>> THEN [ok |-> FALSE]
    ELSE [ok |-> TRUE, start |-> i, end |-> ends[1].p, g |-> ends[1].g]

MatchAt(r, s, i) == FirstEnd(i, ReM(r, s, [p |-> i, g |-> NoGroups]))

\* of the matches ms[k] at the positions k, the one at the least position
Leftmost(ms) ==
    IF \E k \in DOMAIN ms : ms[k].ok THEN ms[LeastOf({k \in DOMAIN ms : ms[k].ok})]
    ELSE [ok |-> FALSE]

\* pattern.search(s) from position i on: the leftmost match
searchFrom(r, s, i) == Leftmost([k \in i..(Len(s) + 1) |-> MatchAt(r, s, k)])

search(r, s) == searchFrom(r, s, 1)

\* m.group(n); n = 0 is the whole match, and a group not matched is ""
group(m, s, n) ==
    IF n = 0 THEN SubSeq(s, m.start, m.end - 1)
    ELSE IF m.g[n][1] = 0 THEN "" ELSE SubSeq(s, m.g[n][1], m.g[n][2] - 1)

\* "m.group(n) if m else otherwise"
GroupOr(m, s, n, otherwise) == IF m.ok THEN group(m, s, n) ELSE otherwise

EndsAt(ends, p) == \E k \in 1..Len(ends) : ends[k].p = p

\* re.fullmatch: some way of matching from the start ends at the end
fullmatch(r, s) == EndsAt(ReM(r, s, [p |-> 1, g |-> NoGroups]), Len(s) + 1)

\* pattern.findall(s) for a pattern with two groups that matches no empty string
RECURSIVE findallFrom(_, _, _)
RECURSIVE findallNext(_, _, _)

\* the groups of the match m, then those of the matches after it
findallNext(r, s, m) ==
    IF ~m.ok THEN <<>>
    ELSE <<<<group(m, s, 1), group(m, s, 2)>>>> \o findallFrom(r, s, m.end)

findallFrom(r, s, i) == findallNext(r, s, searchFrom(r, s, i))

findall(r, s) == IF s = "" THEN <<>> ELSE findallFrom(r, s, 1)

\* re.sub(r, repl, s) for a pattern that matches no empty string
RECURSIVE subFrom(_, _, _, _)
RECURSIVE subNext(_, _, _, _, _)

\* the text from i up to the match m, the replacement, then the same after m
subNext(r, repl, s, i, m) ==
    IF ~m.ok THEN SubSeq(s, i, Len(s))
    ELSE SubSeq(s, i, m.start - 1) \o repl \o subFrom(r, repl, s, m.end)

subFrom(r, repl, s, i) == subNext(r, repl, s, i, searchFrom(r, s, i))

sub(r, repl, s) == IF s = "" THEN "" ELSE subFrom(r, repl, s, 1)

\* str.replace(old, new): every occurrence of old, left to right, none overlapping
replace(s, old, new) == sub(Lit(old), new, s)

(***************************************************************************)
(* The module's constants and compiled patterns.                           *)
(***************************************************************************)
FIELDS == <<"vendor", "date", "currency", "total", "po_number">>

SYNONYMS ==
    [vendor |-> <<"vendor", "seller", "supplier", "from">>,
     date |-> <<"date", "date of issue", "invoice date", "date issued">>,
     currency |-> <<"currency">>,
     total |-> <<"total", "amount due", "amount", "grand total">>,
     po_number |-> <<"po", "po number", "purchase order number", "purchase order",
                     "invoice number", "order number">>]

Sep == Set({"-", "/"})

D(lo, hi) == Rep(Set(Digit), lo, hi)

Ws(lo, hi) == Rep(Set(Whitespace), lo, hi)

\* (\b\d{1,2}[\-/]\d{1,2}[\-/]\d{2,4}\b|\b\d{4}[\-/]\d{1,2}[\-/]\d{1,2}\b)
_date_re ==
    Grp(1, Alt(<<ReSeq(<<WordBoundary, D(1, 2), Sep, D(1, 2), Sep, D(2, 4), WordBoundary>>),
                 ReSeq(<<WordBoundary, D(4, 4), Sep, D(1, 2), Sep, D(1, 2), WordBoundary>>)>>))

\* ([A-Z]{3})?\s?\$?\s?([0-9]{1,3}(?:,[0-9]{3})*(?:\.[0-9]{2})|[0-9]+\.[0-9]{2})
_money_re ==
    ReSeq(<<Rep(Grp(1, Rep(Set(Upper), 3, 3)), 0, 1), Ws(0, 1), Rep(Set({"$"}), 0, 1), Ws(0, 1),
            Grp(2, Alt(<<ReSeq(<<D(1, 3), Rep(ReSeq(<<Set({","}), D(3, 3)>>), 0, -1),
                                 ReSeq(<<Set({"."}), D(2, 2)>>)>>),
                         ReSeq(<<D(1, -1), Set({"."}), D(2, 2)>>)>>))>>)

\* [A-Z0-9\-] under re.I
IdChar == Set(IgnoreCase(Upper) \cup Digit \cup {"-"})

\* PO\s*#?\s*([A-Z0-9\-]+), re.I
_po_re == ReSeq(<<LitI("PO"), Ws(0, -1), Rep(Set({"#"}), 0, 1), Ws(0, -1), Grp(1, Rep(IdChar, 1, -1))>>)

\* Invoice\s*Number[:\s]+([A-Z0-9\-]+), re.I
_inv_re ==
    ReSeq(<<LitI("Invoice"), Ws(0, -1), LitI("Number"), Rep(Set({":"} \cup Whitespace), 1, -1),
            Grp(1, Rep(IdChar, 1, -1))>>)

\* (?:[A-Z]{2,}-)?(\d{6,})
_id_core_re == ReSeq(<<Rep(ReSeq(<<Rep(Set(Upper), 2, -1), Set({"-"})>>), 0, 1), Grp(1, D(6, -1))>>)

\* the dot: any character but a line break
Dot == NotSet({"\n"})

\* Vendor[:\s]+(.+), re.I
_vendor_re ==
    ReSeq(<<LitI("Vendor"), Rep(Set({":"} \cup Whitespace), 1, -1), Grp(1, Rep(Dot, 1, -1))>>)

\* ^(seller|vendor)\s*:\s*(.+)$, re.I | re.M
_seller_inline_re ==
    ReSeq(<<LineStart, Grp(1, Alt(<<LitI("seller"), LitI("vendor")>>)), Ws(0, -1), Set({":"}),
            Ws(0, -1), Grp(2, Rep(Dot, 1, -1)), LineEnd>>)

\* (jan|feb|mar|apr|may|jun|jul|aug|sep|sept|oct|nov|dec)[a-z]*\s+\d{1,2},\s+\d{4}, re.I
_month_re ==
    ReSeq(<<Grp(1, Alt(<<LitI("jan"), LitI("feb"), LitI("mar"), LitI("apr"), LitI("may"),
                         LitI("jun"), LitI("jul"), LitI("aug"), LitI("sep"), LitI("sept"),
                         LitI("oct"), LitI("nov"), LitI("dec")>>)),
            Rep(Set(IgnoreCase(Lower)), 0, -1), Ws(1, -1), D(1, 2), Set({","}), Ws(1, -1), D(4, 4)>>)

\* \s*(vendor|seller)\s*:?\s*, re.I: a vendor value that is only a label
_label_re ==
    ReSeq(<<Ws(0, -1), Grp(1, Alt(<<LitI("vendor"), LitI("seller")>>)), Ws(0, -1),
            Rep(Set({":"}), 0, 1), Ws(0, -1)>>)

\* [A-Z]{2,}-\d{6,}, re.I
_prefixed_id_re == ReSeq(<<Rep(Set(IgnoreCase(Upper)), 2, -1), Set({"-"}), D(6, -1)>>)

\* \d{8,}
_long_digits_re == D(8, -1)

(***************************************************************************)
(* float(s), f"{val:.2f}" and the comparison of two floats, on integers.   *)
(* A decimal numeral is N / 10^k.  FloatErr(N, den) is the error of the    *)
(* IEEE double nearest to N / den, as [s, p]: the double is                *)
(* N / den + (s / den) * 2^p.  It is found from the binary expansion of    *)
(* N / den, cut after 53 significant bits and rounded to nearest, ties to  *)
(* even.                                                                   *)
(***************************************************************************)
MantissaBits == 53

RECURSIVE Pow10(_)
Pow10(k) == IF k = 0 THEN 1 ELSE 10 * Pow10(k - 1)

RECURSIVE Pow2(_)
Pow2(k) == IF k = 0 THEN 1 ELSE 2 * Pow2(k - 1)

RECURSIVE BitLen(_)
BitLen(i) == IF i = 0 THEN 0 ELSE 1 + BitLen(i \div 2)

\* the zero bits after the binary point before the first one bit
RECURSIVE SkipZeros(_, _, _)
SkipZeros(r, den, e) == IF 2 * r < den THEN SkipZeros(2 * r, den, e - 1) ELSE <<r, e>>

\* the next todo bits of r / den: the remainder left and the last bit; the bits
\* are produced one at a time, here the first half of them and then the rest
RECURSIVE GenBits(_, _, _, _)
GenBits(r, den, todo, lsb) ==
    IF todo = 0 THEN <<r, lsb>>
    ELSE IF todo = 1 THEN (LET bit == IF 2 * r >= den THEN 1 ELSE 0
                           IN  <<2 * r - bit * den, bit>>)
    ELSE LET half == GenBits(r, den, todo \div 2, lsb)
         IN  IF half[1] < den THEN GenBits(half[1], den, todo - (todo \div 2), half[2])
             ELSE <<half[1] % den, half[2]>>

\* the bits cut off are b[1] / den of the last bit kept, b[2]: round to nearest, ties to even
RoundErr(b, den, p) ==
    [s |-> IF b[1] = 0 THEN 0
           ELSE IF 2 * b[1] >= den /\ (2 * b[1] > den \/ b[2] = 1) THEN den - b[1] ELSE 0 - b[1],
     p |-> p]

\* a fraction below one: its significant bits start after the zeros z skipped
FractionErr(z, den) == RoundErr(GenBits(z[1], den, MantissaBits, 0), den, z[2] - MantissaBits)

FloatErr(N, den) ==
    IF N = 0 THEN [s |-> 0, p |-> 0]
    ELSE IF N \div den > 0
    THEN RoundErr(GenBits(N % den, den, MantissaBits - BitLen(N \div den), (N \div den) % 2),
                  den, BitLen(N \div den) - MantissaBits)
    ELSE FractionErr(SkipZeros(N % den, den, 0), den)

RECURSIVE DigitsValue(_, _)
DigitsValue(s, acc) ==
    IF s = "" THEN acc
    ELSE IF At(s, 1) = "." THEN DigitsValue(SubSeq(s, 2, Len(s)), acc)
    ELSE DigitsValue(SubSeq(s, 2, Len(s)), 10 * acc + IndexIn(DigitStr, At(s, 1)) - 1)

\* the digits of 2^1024 - 2^970, half way from the largest double to 2^1024:
\* the least integer that float() rounds to inf
MaxDigits == 309

InfFrom ==
    "179769313486231580793728971405303415079934132710037826936173" \o
    "778980444968292764750946649017977587207096330286416692887910" \o
    "946555547851940402630657488671505820681908902000708383676273" \o
    "854845817711531764475730270069855571366959622842914819860834" \o
    "936475292719074168444365510704342711559699508093042880177904" \o
    "174497792"

\* the digits of the numeral s before its point, leading zeros left out
IntDigits(s, dot) == SubSeq(s, FirstIn(1, dot - 1, LAMBDA i : At(s, i) # "0"), dot - 1)

IntPart(s) == IntDigits(s, FirstIn(1, Len(s), LAMBDA i : At(s, i) = "."))

\* the numeral is InfFrom or more
Overflows(ip) == Len(ip) > MaxDigits \/ (Len(ip) = MaxDigits /\ ~strLess(ip, InfFrom))

\* float(s) for s of digits and points: ValueError unless it is d+, d+., .d+ or d*.d+,
\* and inf from InfFrom on
float(s) ==
    LET dots == {i \in 1..Len(s) : At(s, i) = "."}
    IN  IF Cardinality(dots) > 1 \/ Len(s) = Cardinality(dots) THEN [ok |-> FALSE]
        ELSE IF Overflows(IntPart(s)) THEN [ok |-> TRUE, inf |-> TRUE]
        ELSE [ok |-> TRUE, inf |-> FALSE, N |-> DigitsValue(s, 0),
              k |-> IF dots = {} THEN 0 ELSE Len(s) - (CHOOSE i \in dots : TRUE)]

\* the cents f"{val:.2f}" prints for val = float(N / 10^k): the double is rounded
\* to two decimals exactly, half to even, so a decimal tie goes where the double lies
\* a decimal tie between q and q + 1 cents, for a double off by e
TieCents(q, e) == IF e > 0 THEN q + 1 ELSE IF e < 0 THEN q ELSE IF q % 2 = 0 THEN q ELSE q + 1

format2f(N, k) ==
    IF k <= 2 THEN N * Pow10(2 - k)
    ELSE LET m == Pow10(k - 2)
             q == N \div m
             f == N % m
         IN  IF 2 * f < m THEN q
             ELSE IF 2 * f > m THEN q + 1
             ELSE TieCents(q, FloatErr(N, Pow10(k)).s)

RECURSIVE IntStr(_)
IntStr(n) == IF n < 10 THEN At(DigitStr, n + 1) ELSE IntStr(n \div 10) \o At(DigitStr, (n % 10) + 1)

CentsStr(c) == IntStr(c \div 100) \o "." \o At(DigitStr, ((c % 100) \div 10) + 1) \o At(DigitStr, (c % 10) + 1)

\* abs(float(a/100) - float(b/100)) < 0.01 for amounts of a and b cents.  Doubles
\* one cent apart subtract exactly, so the difference is 0.01 plus the errors of
\* the two doubles, compared with the error of the double 0.01.
ErrBelow(eh, el, e1) == (eh.s * Pow2(eh.p - el.p) - el.s) * Pow2(Min(el.p - e1.p, 7)) - e1.s < 0

absDiffLess001(a, b) ==
    IF a = b THEN TRUE
    ELSE IF Max(a, b) - Min(a, b) >= 2 \/ Min(a, b) = 0 THEN FALSE
    ELSE ErrBelow(FloatErr(Max(a, b), 100), FloatErr(Min(a, b), 100), FloatErr(1, 100))

(***************************************************************************)
(* The value normalisers.                                                  *)
(***************************************************************************)
_clean(s) == strip(sub(Ws(1, -1), " ", s))

\* lines 47-51
Formatted(val) ==
    IF ~val.ok THEN "" ELSE IF val.inf THEN "inf" ELSE CentsStr(format2f(val.N, val.k))

_normalize_amount(text) ==
    IF text = "" THEN ""
    ELSE LET s0 == replace(replace(replace(text, ",", ""), "USD", ""), "usd", "")
             s  == sub(Rep(NotSet(Digit \cup {"."}), 1, -1), "", s0)
         IN  Formatted(float(s))

\* the normaliser without the removal of the legal suffixes
_normalize_company_KeepSuffixes(name) == strip(sub(Ws(1, -1), " ", sub(Set({".", ","}), "", lower(_clean(name)))))

_normalize_company(name) ==
    IF name = "" THEN ""
    ELSE
    LET s0 == lower(_clean(name))
        s1 == sub(Set({".", ","}), "", s0)
        s2 == sub(ReSeq(<<WordBoundary, Alt(<<Lit("pvt"), Lit("private")>>), WordBoundary, Ws(0, -1),
                          WordBoundary, Alt(<<Lit("ltd"), Lit("limited")>>), WordBoundary>>), "", s1)
        s3 == sub(ReSeq(<<WordBoundary, Alt(<<Lit("incorporated"), Lit("inc"), Lit("llc"), Lit("ltd")>>),
                          WordBoundary>>), "", s2)
    IN  strip(sub(Ws(1, -1), " ", s3))

(***************************************************************************)
(* Raw records.  A dict is [items |-> its entries in insertion order], an  *)
(* entry <<key, value>>, or <<key>> when the value is None; the record      *)
(* None is NONE.                                                           *)
(***************************************************************************)
Dict(items) == [items |-> items]

\* "if not rec": None and the empty dict
IsEmptyRec(rec) == rec = NONE \/ rec.items = <<>>

HasKey(d, k) == \E i \in 1..Len(d) : d[i][1] = k

\* d[k] for a key the dict has; of several entries written under one key the last stays
Lookup(d, k) == d[LastIn(1, Len(d), LAMBDA i : d[i][1] = k)]

\* rec.get(k) as a string: "" for a missing key and for None, which every caller
\* treats as it treats "" (lines 84-85, 146-151)
get(rec, k) ==
    IF IsEmptyRec(rec) \/ ~HasKey(rec.items, k) THEN ""
    ELSE IF Len(Lookup(rec.items, k)) = 1 THEN "" ELSE Lookup(rec.items, k)[2]

\* {str(k).strip().lower(): str(v) for k, v in rec.items() if v is not None}
LowerKeys(kept) == [i \in 1..Len(kept) |-> <<lower(strip(kept[i][1])), kept[i][2]>>]

lower_map(rec) == LowerKeys(SelectSeq(rec.items, LAMBDA e : Len(e) = 2))

(***************************************************************************)
(* _normalize_record.                                                      *)
(***************************************************************************)
\* the record initialised without its po_number key
EmptyRecord_NoPo == [k \in {"vendor", "date", "currency", "total"} |-> ""]

\* lines 66 and 68
EmptyRecord == [k \in {FIELDS[i] : i \in 1..Len(FIELDS)} |-> ""]

\* the lookup that lets the last synonym listed win
FromSynonyms_LastListed(lm, std) ==
    LET keys == SYNONYMS[std]
        at == LastIn(1, Len(keys), LAMBDA i : HasKey(lm, keys[i]))
    IN  IF at < 1 THEN "" ELSE Lookup(lm, keys[at])[2]

\* lines 69-73: the value of the first synonym of std that is a key of the map
FromSynonyms(lm, std) ==
    LET keys == SYNONYMS[std]
        at == FirstIn(1, Len(keys), LAMBDA i : HasKey(lm, keys[i]))
    IN  IF at > Len(keys) THEN "" ELSE Lookup(lm, keys[at])[2]

\* the cleanup that keeps every value
SanitizeVendor_Keep(v) == v

\* lines 74-76
SanitizeVendor(v) == IF v # "" /\ fullmatch(_label_re, v) THEN "" ELSE v

\* the shape test that accepts only a run of eight digits
SanitizePo_EightDigits(v) == IF v # "" /\ ~search(_long_digits_re, strip(v)).ok THEN "" ELSE v

\* lines 77-82
SanitizePo(v) ==
    LET id_val == strip(v)
    IN  IF v # "" /\ ~(search(_id_core_re, id_val).ok \/ search(_prefixed_id_re, id_val).ok
                       \/ search(_long_digits_re, id_val).ok)
        THEN "" ELSE v

\* lines 86-89
FallbackDate(raw) == GroupOr(search(_date_re, raw), raw, 0, GroupOr(search(_month_re, raw), raw, 0, ""))

\* of two matches, the one that starts first in the text
OrElse_FirstInText(m1, m2) ==
    IF m1.ok /\ m2.ok THEN (IF m1.start < m2.start THEN m1 ELSE m2) ELSE IF m1.ok THEN m1 ELSE m2

\* lines 90-99
OrElse(m1, m2) == IF m1.ok THEN m1 ELSE m2

\* lines 96-99
CoreOrAll(id_val) == GroupOr(search(_id_core_re, id_val), id_val, 1, id_val)

IdOf(m, raw) == IF ~m.ok THEN "" ELSE CoreOrAll(strip(group(m, raw, 1)))

FallbackPo(raw) == IdOf(OrElse(search(_inv_re, raw), search(_po_re, raw)), raw)

\* lines 100-103
LastAmount(m) == IF m = <<>> THEN "" ELSE _normalize_amount(m[Len(m)][2])

FallbackTotal(raw) == LastAmount(findall(_money_re, raw))

\* lines 104-108
FirstCurrency(m, at) == IF at > Len(m) THEN "" ELSE m[at][1]

FirstNonEmpty(m) == FirstCurrency(m, FirstIn(1, Len(m), LAMBDA i : m[i][1] # ""))

FallbackCurrency(raw) == FirstNonEmpty(findall(_money_re, raw))

VendorMaxLen == 64

Truncate(s) == SubSeq(s, 1, IF Len(s) < VendorMaxLen THEN Len(s) ELSE VendorMaxLen)

\* lines 109-126
\* lines 113, 121 and 126: the name cleaned and cut, and "" without a match
NameOf(name) == Truncate(_clean(name))

\* lines 119-122: the line after the label line at
NameAfter(lines, at) == IF at + 1 <= Len(lines) THEN strip(lines[at + 1]) ELSE ""

\* lines 117-122: the first label line with a non-blank line after it
LabelLine(lines) ==
    FirstIn(1, Len(lines), LAMBDA idx :
        /\ startswith(lower(lines[idx]), "seller:") \/ startswith(lower(lines[idx]), "vendor:")
        /\ NameAfter(lines, idx) # "")

NextLineName(lines, at) == IF at > Len(lines) THEN "" ELSE NameOf(NameAfter(lines, at))

RStripped(ls) == [i \in 1..Len(ls) |-> rstrip(ls[i])]

NextLineVendor(lines) == NextLineName(lines, LabelLine(lines))

\* "a or b or c" over strings
Or3(a, b, c) == IF a # "" THEN a ELSE IF b # "" THEN b ELSE c

FallbackVendor(raw) ==
    Or3(NameOf(GroupOr(search(_seller_inline_re, raw), raw, 2, "")),
        NextLineVendor(RStripped(splitlines(raw))),
        NameOf(GroupOr(search(_vendor_re, raw), raw, 1, "")))

\* the fallbacks with the currency of the raw text put before the one resolved
WithFallbacks_RawCurrencyFirst(r1, raw) ==
    [r1 EXCEPT !.currency = IF raw = "" THEN @ ELSE Or3(FallbackCurrency(raw), @, "")]

\* lines 84-126
WithFallbacks(r1, raw) ==
    IF raw = "" THEN r1
    ELSE [date |-> IF r1.date = "" THEN FallbackDate(raw) ELSE r1.date,
          po_number |-> IF r1.po_number = "" THEN FallbackPo(raw) ELSE r1.po_number,
          total |-> IF r1.total = "" THEN FallbackTotal(raw) ELSE r1.total,
          currency |-> IF r1.currency = "" THEN FallbackCurrency(raw) ELSE r1.currency,
          vendor |-> IF r1.vendor = "" THEN FallbackVendor(raw) ELSE r1.vendor]

_normalize_record(rec) ==
    IF IsEmptyRec(rec) THEN EmptyRecord
    ELSE LET lm == lower_map(rec)
             r0 == [std \in DOMAIN EmptyRecord |-> FromSynonyms(lm, std)]
             r1 == [r0 EXCEPT !.vendor = SanitizeVendor(@), !.po_number = SanitizePo(@)]
         IN  WithFallbacks(r1, get(rec, "_raw"))

(***************************************************************************)
(* _candidate_fields, _resolve and the classification of one field.        *)
(***************************************************************************)
RecKeys(rec) == IF IsEmptyRec(rec) THEN {} ELSE {lower(strip(rec.items[i][1])) : i \in 1..Len(rec.items)}

_candidate_fields(i, p) ==
    {FIELDS[k] : k \in 1..Len(FIELDS)} \cup {lk \in RecKeys(i) \cup RecKeys(p) : lk # "" /\ lk # "_raw"}

_resolve(rec, std_field, normalized) ==
    LET val == strip(IF std_field \in DOMAIN normalized THEN normalized[std_field] ELSE "")
        s == strip(get(rec, std_field))
    IN  IF val # "" THEN val
        ELSE IF s = "" THEN ""
        ELSE IF std_field = "vendor" THEN (IF fullmatch(_label_re, s) THEN "" ELSE s)
        ELSE IF std_field = "po_number" THEN GroupOr(search(_id_core_re, s), s, 1, "")
        ELSE s

\* the status expression without its test for an empty side
Generic_EmptyIsMismatch(lv, rv) == IF lv = rv THEN "match" ELSE "mismatch"

\* the status expression with every unequal pair reported missing
Generic_UnequalIsMissing(lv, rv) == IF lv # "" /\ rv # "" /\ lv = rv THEN "match" ELSE "missing"

\* the status expression that reports missing only for an empty left side
Generic_LeftEmptyIsMissing(lv, rv) ==
    IF lv # "" /\ rv # "" /\ lv = rv THEN "match"
    ELSE IF lv = "" THEN "missing" ELSE "mismatch"

\* line 200 and line 202
Generic(lv, rv) ==
    IF lv # "" /\ rv # "" /\ lv = rv THEN "match"
    ELSE IF lv = "" \/ rv = "" THEN "missing" ELSE "mismatch"

\* lines 176-185; float(ni) and float(np) read back what _normalize_amount printed;
\* float("inf") is the infinity, and inf - x is inf and inf - inf is nan, neither
\* of them below 0.01
AmountStatus(ni, np) ==
    IF ni # "" /\ np # ""
    THEN (IF "inf" \in {ni, np} THEN "mismatch"
          ELSE IF absDiffLess001(float(ni).N, float(np).N) THEN "match" ELSE "mismatch")
    ELSE "missing"

TotalStatus(iv, pv) == AmountStatus(_normalize_amount(iv), _normalize_amount(pv))

IdFields == {"po_number", "invoice number", "purchase order number", "order number"}

\* lines 187-202
\* lines 187-192: lv and rv
CompanyIf(f, v) == IF f = "vendor" THEN _normalize_company(v) ELSE v

Comparable(f, v) == CompanyIf(f, lower(_clean(v)))

\* lines 194-200
IdStatus(f, iv, pv, li, ri, generic) ==
    IF f \in IdFields /\ li.ok /\ ri.ok
    THEN (IF group(li, iv, 1) = group(ri, pv, 1) THEN "match" ELSE "mismatch")
    ELSE generic

OtherStatus(f, iv, pv) ==
    IdStatus(f, iv, pv, search(_id_core_re, iv), search(_id_core_re, pv),
             Generic(Comparable(f, iv), Comparable(f, pv)))

Status(f, iv, pv) == IF f = "total" THEN TotalStatus(iv, pv) ELSE OtherStatus(f, iv, pv)

Columns == <<"field", "invoice", "po", "status">>

(***************************************************************************)
(* The raw records the model draws its inputs from: the first NumRecords   *)
(* of RecordPool on each side, and totals one cent apart up to MaxCents.   *)
(***************************************************************************)
NumRecords == 52

MaxCents == 12

ScenarioInvoice ==
    Dict(<<<<"Seller", "Acme Inc.">>, <<"Total", "$1,200.00">>, <<"Invoice Number", "INV-000987654">>>>)

ScenarioPo == Dict(<<<<"vendor", "ACME">>, <<"amount due", "1200.00">>, <<"po", "987654">>>>)

PaddedId == {Dict(<<<<"po_number", "PO-000123456">>>>), Dict(<<<<"po", "PO-000123456">>>>)}

BareId == {Dict(<<<<"po_number", "123456">>>>), Dict(<<<<"po", "123456">>>>)}

RecordPool ==
    << NONE,
       Dict(<<>>),
       ScenarioInvoice,
       ScenarioPo,
       Dict(<<<<"po_number", "PO-000123456">>>>),
       Dict(<<<<"po_number", "123456">>>>),
       Dict(<<<<"po", "PO-000123456">>>>),
       Dict(<<<<"po", "123456">>>>),
       Dict(<<<<"po", "rt">>>>),
       Dict(<<<<"invoice number", "INV-000987654">>>>),
       Dict(<<<<"order number", "ab-12345">>>>),
       Dict(<<<<"order number", "AB-12345 ">>>>),
       Dict(<<<<"total", "100.00">>>>),
       Dict(<<<<"total", "100.004">>>>),
       Dict(<<<<"total", "100.006">>>>),
       Dict(<<<<"total", "10.01">>>>),
       Dict(<<<<"amount", "USD 10.00">>>>),
       Dict(<<<<"total", "abc">>>>),
       Dict(<<<<"total", "1.2.3">>>>),
       Dict(<<<<"vendor", "Acme Inc.">>>>),
       Dict(<<<<"vendor", "Inc.">>>>),
       Dict(<<<<"vendor", "Globex Pvt. Ltd.">>>>),
       Dict(<<<<"supplier", "globex">>>>),
       Dict(<<<<"vendor", "Seller:">>>>),
       Dict(<<<<"currency", "USD">>>>),
       Dict(<<<<"currency", " usd ">>>>),
       Dict(<<<<"currency", "EUR">>>>),
       Dict(<<<<"date", "2024-01-05">>>>),
       Dict(<<<<"invoice date", "Jan 5, 2024">>>>),
       Dict(<<<<"Notes", "net 30">>>>),
       Dict(<<<<"notes", "net 30">>>>),
       Dict(<<<<" notes", "NET  30">>>>),
       Dict(<<<<"notes", " ">>>>),
       Dict(<<<<"notes">>>>),
       Dict(<<<<"Total", "5.00">>, <<"total", "7.00">>>>),
       Dict(<<<<"total", "7.00">>, <<"TOTAL", "5.00">>>>),
       Dict(<<<<"amount", "5.00">>, <<"total">>, <<"amount due", "7.00">>>>),
       Dict(<<<<"_raw", "Seller: Acme Inc.\nTotal: USD 1,200.00\nInvoice Number: INV-000987654\nDate: Jan 5, 2024">>>>),
       Dict(<<<<"_raw", "Vendor: Seller\nPO # rt 1,234.50">>>>),
       Dict(<<<<"_raw", "seller:\nGlobex Pvt Ltd\nPO#AB-12 due 01/02/2024 $5.00">>>>),
       Dict(<<<<"_raw", "PO 123456 then Invoice Number: 7">>, <<"vendor", "vendor">>>>),
       Dict(<<<<"_raw", "Mar 3, 2021 and 1-2-34 EUR 5.00 USD 7.00">>, <<"currency", "USD">>>>),
       Dict(<<<<"_raw">>, <<"date", "2024-01-05">>>>),
       Dict(<<<<"_RAW", "Vendor: Acme">>, <<"po", "12345678">>>>),
       Dict(<<<<"vendor", "">>, <<"date", "">>, <<"currency", "">>, <<"total", "">>, <<"po_number", "">>>>),
       Dict(<<<<"vendor", "Acme">>, <<"date", "2024-01-05">>, <<"currency", "USD">>, <<"total", "5.00">>,
              <<"po_number", "123456">>>>),
       Dict(<<<<"vendor", "Acme">>, <<"Vendor", "Seller:">>>>),
       Dict(<<<<"seller", " VENDOR : ">>>>),
       Dict(<<<<"po", "rt">>, <<"_raw", "see PO# AB-1234567">>>>),
       Dict(<<<<"purchase order", " AB-1234567 ">>>>),
       Dict(<<<<"_raw", "Invoice Number: INV-000987654 and PO 44">>>>),
       Dict(<<<<"_raw", "due 01/02/2024, issued Jan 5, 2024">>, <<"total", "5.00">>>>),
       Dict(<<<<"x Vendor", "Foo">>, <<"vendor", " ">>>>) >>

Pool == {RecordPool[i] : i \in 1..(IF NumRecords < Len(RecordPool) THEN NumRecords ELSE Len(RecordPool))}

TotalOf(c) == Dict(<<<<"total", CentsStr(c)>>>>)

CentPairs == {<<TotalOf(a), TotalOf(b)>> : a \in 0..MaxCents, b \in 0..MaxCents}

\* one company under several letter cases, spacings, punctuations and legal
\* suffixes, and names that are nothing but a legal suffix
AcmeNames ==
    {"Acme", "ACME", " acme ", "Acme Inc.", "ACME  INC", "Acme, Inc.", "Acme LLC", "acme ltd.",
     "Acme Incorporated", "Acme Pvt. Ltd.", "ACME PRIVATE LIMITED", "A.c.m.e"}

SuffixNames == {"Inc.", "INC", " inc "}

VendorOf(v) == Dict(<<<<"vendor", v>>>>)

VendorPairs == {<<VendorOf(a), VendorOf(b)>> : a, b \in AcmeNames \cup SuffixNames}

Inputs == (Pool \X Pool) \cup CentPairs \cup VendorPairs

(***************************************************************************)
(* compare_records, one action per statement; pc is the line it is at.     *)
(***************************************************************************)
UNSET == [unset |-> TRUE]

Init ==
    /\ \E io \in Inputs : inv = io[1] /\ po = io[2]
    /\ inv_n = UNSET /\ po_n = UNSET
    /\ pc = "164" /\ fields = <<>> /\ rows = <<>> /\ mismatches = 0 /\ result = UNSET
    /\ first = UNSET
    /\ NoEmail

\* line 164
NormalizeInv ==
    /\ pc = "164"
    /\ inv_n' = _normalize_record(inv)
    /\ pc' = "165"
    /\ UNCHANGED <<inv, po, po_n, fields, rows, mismatches, result, first, emailVars>>

\* line 165
NormalizePo ==
    /\ pc = "165"
    /\ po_n' = _normalize_record(po)
    /\ pc' = "166"
    /\ UNCHANGED <<inv, po, inv_n, fields, rows, mismatches, result, first, emailVars>>

\* lines 166-168: the for loop starts over the sorted candidate fields
StartLoop ==
    /\ pc = "166"
    /\ rows' = <<>> /\ mismatches' = 0
    /\ fields' = sorted(_candidate_fields(inv, po))
    /\ pc' = "168"
    /\ UNCHANGED <<inv, po, inv_n, po_n, result, first, emailVars>>

\* the loop without its skip of fields empty on both sides
BothEmpty_Never(iv, pv) == FALSE

\* line 172: "if not iv and not pv"
BothEmpty(iv, pv) == iv = "" /\ pv = ""

\* the counter incremented for every row that is not a match
CountsAsMismatch_NotMatch(status) == status # "match"

\* line 203: "if status == 'mismatch'"
CountsAsMismatch(status) == status = "mismatch"

\* lines 169-173: a field empty on both sides is skipped
SkipField ==
    /\ pc = "168" /\ fields # <<>>
    /\ BothEmpty(_resolve(inv, Head(fields), inv_n), _resolve(po, Head(fields), po_n))
    /\ fields' = Tail(fields)
    /\ UNCHANGED <<inv, po, inv_n, po_n, pc, rows, mismatches, result, first, emailVars>>

\* lines 169-170 and 174-205: the field is classified and its row appended
\* lines 203-205
Classified(f, iv, pv, status) ==
    /\ mismatches' = IF CountsAsMismatch(status) THEN mismatches + 1 ELSE mismatches
    /\ rows' = Append(rows, [field |-> f, invoice |-> iv, po |-> pv, status |-> status])

\* lines 172-205
Compared(f, iv, pv) == ~BothEmpty(iv, pv) /\ Classified(f, iv, pv, Status(f, iv, pv))

AppendRow ==
    /\ pc = "168" /\ fields # <<>>
    /\ Compared(Head(fields), _resolve(inv, Head(fields), inv_n), _resolve(po, Head(fields), po_n))
    /\ fields' = Tail(fields)
    /\ UNCHANGED <<inv, po, inv_n, po_n, pc, result, first, emailVars>>

\* lines 206-208
Return ==
    /\ pc = "168" /\ fields = <<>>
    /\ result' = IF rows = <<>> THEN [df |-> [columns |-> Columns, rows |-> <<>>], mismatches |-> 0]
                 ELSE [df |-> [columns |-> Columns, rows |-> rows], mismatches |-> mismatches]
    /\ pc' = "done"
    /\ UNCHANGED <<inv, po, inv_n, po_n, fields, rows, mismatches, first, emailVars>>

Next == NormalizeInv \/ NormalizePo \/ StartLoop \/ SkipField \/ AppendRow \/ Return

Spec == Init /\ [][Next]_vars

(***************************************************************************)
(* compare_records called a second time with the two records exchanged:    *)
(* first keeps what the call compare_records(inv, po) returned.            *)
(***************************************************************************)
SwapSides ==
    /\ pc = "done" /\ first = UNSET
    /\ first' = result
    /\ inv' = po /\ po' = inv
    /\ inv_n' = UNSET /\ po_n' = UNSET
    /\ pc' = "164" /\ fields' = <<>> /\ rows' = <<>> /\ mismatches' = 0 /\ result' = UNSET
    /\ UNCHANGED emailVars

NextSym == Next \/ SwapSides

SpecSym == Init /\ [][NextSym]_vars

(***************************************************************************)
(* _normalize_record applied twice: inv is the raw record, inv_n its       *)
(* canonical record, po that canonical record handed back as a raw record  *)
(* with the canonical keys, po_n what the second call returns.             *)
(***************************************************************************)
AsRaw(c) == Dict([i \in 1..Len(FIELDS) |-> <<FIELDS[i], c[FIELDS[i]]>>])

InitIdem ==
    /\ inv \in Pool /\ po = UNSET
    /\ inv_n = UNSET /\ po_n = UNSET
    /\ pc = "first" /\ fields = <<>> /\ rows = <<>> /\ mismatches = 0 /\ result = UNSET
    /\ first = UNSET
    /\ NoEmail

NormalizeFirst ==
    /\ pc = "first"
    /\ inv_n' = _normalize_record(inv)
    /\ pc' = "refeed"
    /\ UNCHANGED <<inv, po, po_n, fields, rows, mismatches, result, first, emailVars>>

Refeed ==
    /\ pc = "refeed"
    /\ po' = AsRaw(inv_n)
    /\ pc' = "again"
    /\ UNCHANGED <<inv, inv_n, po_n, fields, rows, mismatches, result, first, emailVars>>

NormalizeAgain ==
    /\ pc = "again"
    /\ po_n' = _normalize_record(po)
    /\ pc' = "twice"
    /\ UNCHANGED <<inv, po, inv_n, fields, rows, mismatches, result, first, emailVars>>

NextIdem == NormalizeFirst \/ Refeed \/ NormalizeAgain

SpecIdem == InitIdem /\ [][NextIdem]_vars

(***************************************************************************)
(* _normalize_amount on its own: inv is the text, result what it returns.  *)
(***************************************************************************)
RECURSIVE Repeat(_, _)
Repeat(c, n) == IF n = 0 THEN "" ELSE IF n = 1 THEN c ELSE Repeat(c, n \div 2) \o Repeat(c, n - (n \div 2))

\* "1" + "0" * 309, the least power of ten above every double
HugeAmount == "1" \o Repeat("0", MaxDigits)

\* the texts: a currency prefix, a number or none, a suffix
AmountTexts ==
    {a \o b \o c :
        a \in {"", "$", "USD ", "usd", "-", "EUR "},
        b \in {"", "abc", "1,234.50", "1234.5", "12", ".5", "5.", "0.005", "1.005", "2.675", "1.2.3",
               ",", ".", "1 000,5", "007", InfFrom, HugeAmount},
        c \in {"", " USD", ".", "%"}}

InitAmount ==
    /\ inv \in AmountTexts /\ po = UNSET
    /\ inv_n = UNSET /\ po_n = UNSET
    /\ pc = "42" /\ fields = <<>> /\ rows = <<>> /\ mismatches = 0 /\ result = UNSET
    /\ first = UNSET
    /\ NoEmail

\* lines 42-51
NormalizeAmount ==
    /\ pc = "42"
    /\ result' = _normalize_amount(inv)
    /\ pc' = "returned"
    /\ UNCHANGED <<inv, po, inv_n, po_n, fields, rows, mismatches, first, emailVars>>

NextAmount == NormalizeAmount

SpecAmount == InitAmount /\ [][NextAmount]_vars

(***************************************************************************)
(* One "Fetch & Process Emails" run.  A message of the inbox is            *)
(* [subject, body, attachments, seen], attachments being the file names of *)
(* its PDF and image parts as _get_attachments lists them; its id is its   *)
(* place in the inbox.  The server is not part of the source: whether its  *)
(* FETCH of RFC822 sets the \Seen flag of a message is open, and           *)
(* session.implicit_seen is either.                                        *)
(***************************************************************************)
INVOICE_KEYWORDS ==
    <<"invoice", "billing", "payment due", "amount due", "statement", "invoice number", "inv-", "inv #">>

PO_KEYWORDS ==
    <<"purchase order", "po number", "purchase order number", "order confirmation", "po-", "po #", "po_">>

INVOICE_FILE_PATTERNS == <<"invoice", "inv", "bill", "statement">>

PO_FILE_PATTERNS == <<"po", "purchase", "order">>

\* any(kw in text for kw in kws)
AnyIn(kws, text) ==
    \E k \in 1..Len(kws) : \E i \in 1..(Len(text) - Len(kws[k]) + 1) :
        SubSeq(text, i, i + Len(kws[k]) - 1) = kws[k]

\* lines 49-57 and 61-69: a keyword in the text, or a pattern in a file name
HasKeyword(kws, patterns, text, attachments) ==
    AnyIn(kws, text) \/ \E a \in 1..Len(attachments) : AnyIn(patterns, lower(attachments[a]))

_is_invoice_email(subject, body, attachments) ==
    HasKeyword(INVOICE_KEYWORDS, INVOICE_FILE_PATTERNS, lower(subject \o " " \o body), attachments)

_is_po_email(subject, body, attachments) ==
    HasKeyword(PO_KEYWORDS, PO_FILE_PATTERNS, lower(subject \o " " \o body), attachments)

\* mail.search(None, 'UNSEEN'): the ids of the unseen messages, ascending
Unseen(box) == SelectSeq([i \in 1..Len(box) |-> i], LAMBDA i : ~box[i].seen)

\* reversed(email_ids[-max_results*3:])
Newest(ids, n) == [k \in 1..Min(n, Len(ids)) |-> ids[Len(ids) + 1 - k]]

\* lines 130-140: an item for each attachment from the k-th on, until the list has max_results
RECURSIVE AppendItems(_, _, _, _, _, _)
AppendItems(items, id, msg, k, max_results, type) ==
    IF k > Len(msg.attachments) \/ (k > 1 /\ Len(items) >= max_results) THEN items
    ELSE AppendItems(Append(items, [email_id |-> id, subject |-> msg.subject,
                                    filename |-> msg.attachments[k], type |-> type]),
                     id, msg, k + 1, max_results, type)

\* lines 124-128 and 186-190
IsOfType(type, msg) ==
    /\ msg.attachments # <<>>
    /\ IF type = "invoice" THEN _is_invoice_email(msg.subject, msg.body, msg.attachments)
       ELSE _is_po_email(msg.subject, msg.body, msg.attachments)

\* lines 97-142 and 159-204: the messages ids[k..] one after the other
RECURSIVE Scan(_, _, _, _, _, _)
Scan(box, ids, k, items, max_results, type) ==
    IF k > Len(ids) THEN items
    ELSE Scan(box, ids, k + 1,
              IF IsOfType(type, box[ids[k]])
              THEN AppendItems(items, ids[k], box[ids[k]], 1, max_results, type) ELSE items,
              max_results, type)

\* lines 143 and 205: items[:max_results]
Scanned(items, max_results) == SubSeq(items, 1, Min(max_results, Len(items)))

fetch_unread_invoices(box, max_results) ==
    Scanned(Scan(box, Newest(Unseen(box), max_results * 3), 1, <<>>, max_results, "invoice"), max_results)

fetch_unread_pos(box, max_results) ==
    Scanned(Scan(box, Newest(Unseen(box), max_results * 3), 1, <<>>, max_results, "po"), max_results)

\* lines 99 and 161: the inbox after the FETCH of the messages ids
Fetched(box, ids, implicit_seen) ==
    [i \in 1..Len(box) |->
        IF implicit_seen /\ (\E k \in 1..Len(ids) : ids[k] = i) THEN [box[i] EXCEPT !.seen = TRUE] ELSE box[i]]

\* lines 209-217
mark_as_read(box, message_id) == [box EXCEPT ![message_id].seen = TRUE]

\* lines 112-120 and 126-134: the record of one document; attachment stands for
\* the fields and the text that the OCR reads from the bytes of the attachment
Document(item) ==
    [email_id |-> item.email_id, email_subject |-> item.subject, source |-> "email",
     attachment |-> item.filename]

NumEmails == 4

MaxResults == 2

\* messages with an invoice subject, a purchase order subject, both, a file name
\* that reads as both, and none of the attachments kept
Messages ==
    {[subject |-> "Invoice INV-7", body |-> "Payment terms: net 30", attachments |-> <<"scan.pdf">>, seen |-> FALSE],
     [subject |-> "Order confirmation", body |-> "", attachments |-> <<"doc.png">>, seen |-> FALSE],
     [subject |-> "Invoice for purchase order 7", body |-> "", attachments |-> <<"a.pdf", "b.jpg">>, seen |-> FALSE],
     [subject |-> "Documents", body |-> "see attached", attachments |-> <<"Report_Invoice.pdf">>, seen |-> FALSE],
     [subject |-> "Invoice", body |-> "", attachments |-> <<>>, seen |-> FALSE]}

InitEmail ==
    /\ inv = UNSET /\ po = UNSET /\ inv_n = UNSET /\ po_n = UNSET
    /\ fields = <<>> /\ rows = <<>> /\ mismatches = 0 /\ result = UNSET /\ first = UNSET
    /\ inbox \in UNION {[1..n -> Messages] : n \in 0..NumEmails}
    /\ session \in [max_emails : 1..MaxResults, auto_csv : BOOLEAN, implicit_seen : BOOLEAN]
    /\ invoices = <<>> /\ pos = <<>> /\ processed = <<>> /\ csv = <<>>
    /\ pc = "102"

\* main_app.py line 102
FetchInvoices ==
    /\ pc = "102"
    /\ invoices' = fetch_unread_invoices(inbox, session.max_emails)
    /\ inbox' = Fetched(inbox, Newest(Unseen(inbox), session.max_emails * 3), session.implicit_seen)
    /\ pc' = "103"
    /\ UNCHANGED <<inv, po, inv_n, po_n, fields, rows, mismatches, result, first, session, pos, processed, csv>>

\* main_app.py lines 103-109
FetchPos ==
    /\ pc = "103"
    /\ pos' = fetch_unread_pos(inbox, session.max_emails)
    /\ inbox' = Fetched(inbox, Newest(Unseen(inbox), session.max_emails * 3), session.implicit_seen)
    /\ processed' = <<>>
    /\ pc' = "110"
    /\ UNCHANGED <<inv, po, inv_n, po_n, fields, rows, mismatches, result, first, session, invoices, csv>>

\* main_app.py lines 110-122: the next invoice item
ProcessInvoice ==
    /\ pc = "110" /\ invoices # <<>>
    /\ processed' = Append(processed, Document(Head(invoices)))
    /\ inbox' = mark_as_read(inbox, Head(invoices).email_id)
    /\ invoices' = Tail(invoices)
    /\ UNCHANGED <<inv, po, inv_n, po_n, pc, fields, rows, mismatches, result, first, session, pos, csv>>

\* main_app.py lines 124-136: the next PO item, after the invoice items
ProcessPo ==
    /\ pc = "110" /\ invoices = <<>> /\ pos # <<>>
    /\ processed' = Append(processed, Document(Head(pos)))
    /\ inbox' = mark_as_read(inbox, Head(pos).email_id)
    /\ pos' = Tail(pos)
    /\ UNCHANGED <<inv, po, inv_n, po_n, pc, fields, rows, mismatches, result, first, session, invoices, csv>>

\* main_app.py lines 138-145 and update_master_csv
UpdateCsv ==
    /\ pc = "110" /\ invoices = <<>> /\ pos = <<>>
    /\ csv' = IF processed # <<>> /\ session.auto_csv THEN csv \o processed ELSE csv
    /\ pc' = "145"
    /\ UNCHANGED <<inv, po, inv_n, po_n, fields, rows, mismatches, result, first,
                   inbox, session, invoices, pos, processed>>

NextEmail == FetchInvoices \/ FetchPos \/ ProcessInvoice \/ ProcessPo \/ UpdateCsv

SpecEmail == InitEmail /\ [][NextEmail]_vars

(***************************************************************************)
(* What the properties below read of a state.                              *)
(***************************************************************************)
Done == pc = "done"

FieldSet == {FIELDS[i] : i \in 1..Len(FIELDS)}

\* the rows of the returned table
Table == IF Done THEN result.df.rows ELSE <<>>

RowSet == {Table[i] : i \in 1..Len(Table)}

RowsFor(f) == {r \in RowSet : r.field = f}

ExactlyOneEmpty(r) == (r.invoice = "") # (r.po = "")

\* the amount of a normalised total, in cents
Cents(amount) == float(amount).N

AbsDiff(a, b) == IF a > b THEN a - b ELSE b - a

\* a side of a total row whose amount does not parse
Unparsed(r) == _normalize_amount(r.invoice) = "" \/ _normalize_amount(r.po) = ""

\* a side of a vendor row whose company name normalises to nothing
NoCompany(r) ==
    \/ _normalize_company(lower(_clean(r.invoice))) = ""
    \/ _normalize_company(lower(_clean(r.po))) = ""

\* the extra keys of a raw record that hold a non-blank string, lower-cased,
\* each with its trimmed value
ExtraEntries(rec) ==
    IF IsEmptyRec(rec) THEN {}
    ELSE {<<lower(strip(e[1])), strip(e[2])>> :
            e \in {rec.items[i] : i \in {j \in 1..Len(rec.items) : Len(rec.items[j]) = 2}}}

IsExtra(e) == e[1] \notin FieldSet \cup {"", "_raw"} /\ e[2] # ""

(***************************************************************************)
(* Properties.                                                             *)
(***************************************************************************)

\* C1: comparing the scenario invoice {"Seller": "Acme Inc.", "Total": "$1,200.00",
\* "Invoice Number": "INV-000987654"} with the scenario PO {"vendor": "ACME",
\* "amount due": "1200.00", "po": "987654"} returns exactly the three rows vendor,
\* total and po_number, each with status match, and a mismatch count of 0.
C1_EndToEndScenario ==
    (Done /\ inv = ScenarioInvoice /\ po = ScenarioPo) =>
        /\ {<<r.field, r.status>> : r \in RowSet} =
               {<<"vendor", "match">>, <<"total", "match">>, <<"po_number", "match">>}
        /\ Len(Table) = 3
        /\ result.mismatches = 0

\* C2: when one record gives the identifier "PO-000123456" and the other the bare
\* number "123456" it denotes, on either side, the result has a po_number row and
\* its status is match.
C2_IdCoreEquivalence ==
    (Done /\ ((inv \in PaddedId /\ po \in BareId) \/ (inv \in BareId /\ po \in PaddedId))) =>
        /\ RowsFor("po_number") # {}
        /\ \A r \in RowsFor("po_number") : r.status = "match"

\* C3: a canonical record fed back to _normalize_record as a raw record with the
\* canonical keys comes back with the same value in each of the five fields.
C3_Idempotent == pc = "twice" => \A f \in FieldSet : po_n[f] = inv_n[f]

\* C4: a total row whose two values both normalise to an amount has status match
\* exactly when the amounts differ by strictly less than 0.01 (less than one
\* cent) and mismatch otherwise; a total row with a side that does not normalise
\* to an amount has status missing.
C4_TotalClassification ==
    \A r \in RowsFor("total") :
        IF Unparsed(r) THEN r.status = "missing"
        ELSE r.status = (IF AbsDiff(Cents(_normalize_amount(r.invoice)), Cents(_normalize_amount(r.po))) < 1
                         THEN "match" ELSE "mismatch")

\* C5: what _normalize_record returns has exactly the five keys vendor, date,
\* currency, total, po_number, each holding a string, for every raw record, and
\* for an empty or absent raw record all five strings are empty.
C5_FiveCanonicalKeys ==
    /\ pc # "164" =>
           /\ DOMAIN inv_n = FieldSet /\ \A f \in FieldSet : inv_n[f] \in STRING
           /\ IsEmptyRec(inv) => \A f \in FieldSet : inv_n[f] = ""
    /\ pc \notin {"164", "165"} =>
           /\ DOMAIN po_n = FieldSet /\ \A f \in FieldSet : po_n[f] \in STRING
           /\ IsEmptyRec(po) => \A f \in FieldSet : po_n[f] = ""

C5_Witness ==
    /\ pc = "166" /\ inv = NONE /\ po # NONE
    /\ po_n.vendor # "" /\ po_n.po_number # "" /\ get(po, "_raw") # ""

\* C6: no row of a result has both values empty, and a row with status match or
\* mismatch has both values non-empty.
C6_NoEmptyRows ==
    \A r \in RowSet :
        /\ r.invoice # "" \/ r.po # ""
        /\ r.status \in {"match", "mismatch"} => r.invoice # "" /\ r.po # ""

C6_Witness ==
    /\ Done
    /\ Len(Table) < Cardinality(_candidate_fields(inv, po))
    /\ \E r \in RowSet : r.status = "match"
    /\ \E r \in RowSet : r.status = "missing"

\* C7 as stated: a row with status missing has exactly one value empty, unless
\* it is a total row with an amount that failed to parse.
C7_MissingOneSided ==
    \A r \in RowSet :
        r.status = "missing" => ExactlyOneEmpty(r) \/ (r.field = "total" /\ Unparsed(r))

\* C7, amended: a row with status missing has exactly one value empty, unless it
\* is a total row with an amount that failed to parse or a vendor row with a name
\* that company normalisation leaves empty.
C7_MissingOneSidedOrIncomparable ==
    \A r \in RowSet :
        r.status = "missing" =>
            \/ ExactlyOneEmpty(r)
            \/ r.field = "total" /\ Unparsed(r)
            \/ r.field = "vendor" /\ NoCompany(r)

C7_Witness ==
    \E r \in RowSet :
        /\ r.status = "missing" /\ r.field = "vendor"
        /\ r.invoice # "" /\ r.po # "" /\ NoCompany(r)

\* C8: the integer returned is the number of rows with status mismatch, and a
\* result without rows is the empty table with the four columns and the integer 0.
C8_MismatchCount ==
    Done =>
        /\ result.mismatches = Cardinality({i \in 1..Len(Table) : Table[i].status = "mismatch"})
        /\ result.df.columns = <<"field", "invoice", "po", "status">>
        /\ Table = <<>> => result.mismatches = 0

C8_Witness ==
    /\ Done /\ result.mismatches = 2
    /\ \E r \in RowSet : r.status = "missing"
    /\ \E r \in RowSet : r.status = "match"

\* C9: every extra key of either raw record that holds a non-blank string has a
\* row under its lower-cased name, showing the trimmed value on that record's
\* side, whatever the letter case of the key.
C9_ExtraKeysAnyCase ==
    Done =>
        /\ \A e \in ExtraEntries(inv) : IsExtra(e) => \E r \in RowsFor(e[1]) : r.invoice = e[2]
        /\ \A e \in ExtraEntries(po) : IsExtra(e) => \E r \in RowsFor(e[1]) : r.po = e[2]

\* C10: a row of a generic field (neither vendor, total nor po_number) with
\* exactly one value empty has status missing, and an invoice without a currency
\* against a PO with the currency "USD" gives a currency row with status missing.
C10_OneSidedIsMissing ==
    /\ \A r \in RowSet :
           (r.field \notin {"vendor", "total", "po_number"} /\ ExactlyOneEmpty(r)) => r.status = "missing"
    /\ (Done /\ _resolve(inv, "currency", inv_n) = "" /\ _resolve(po, "currency", po_n) = "USD") =>
           /\ RowsFor("currency") # {}
           /\ \A r \in RowsFor("currency") : r.status = "missing"

C10_Witness ==
    /\ \E r \in RowsFor("currency") : r.invoice = "" /\ r.po = "USD" /\ r.status = "missing"
    /\ \E r \in RowSet : r.field \notin FieldSet /\ r.invoice # "" /\ r.po = ""

(***************************************************************************)
(* What the properties of the record normaliser read of a raw record.      *)
(***************************************************************************)
\* the value the raw record's keys give a canonical field, before any cleanup
KeyValue(rec, f) == IF IsEmptyRec(rec) THEN "" ELSE FromSynonyms(lower_map(rec), f)

RawOf(rec) == get(rec, "_raw")

\* a string that is only the label "vendor" or "seller": any letter case, an
\* optional colon, optional whitespace around each
Uncolon(t) == IF t # "" /\ At(t, Len(t)) = ":" THEN rstrip(SubSeq(t, 1, Len(t) - 1)) ELSE t

LabelOnly(v) == Uncolon(lower(strip(v))) \in {"vendor", "seller"}

\* a record without raw text whose keys give a label as the vendor
NoRawLabel(rec) == RawOf(rec) = "" /\ LabelOnly(KeyValue(rec, "vendor"))

\* C11 as stated: when the keys of a raw record without raw text give a vendor
\* value that is only the label "vendor" or "seller" (any letter case, optional
\* colon, optional whitespace), the canonical vendor is the empty string and the
\* vendor row of the comparison, if any, shows no value on that record's side.
C11_LabelOnlyDiscarded ==
    /\ (pc # "164" /\ NoRawLabel(inv)) => inv_n.vendor = ""
    /\ (pc \notin {"164", "165"} /\ NoRawLabel(po)) => po_n.vendor = ""
    /\ (Done /\ NoRawLabel(inv)) => \A r \in RowsFor("vendor") : r.invoice = ""
    /\ (Done /\ NoRawLabel(po)) => \A r \in RowsFor("vendor") : r.po = ""

\* C11, amended: under the same condition the canonical vendor is the empty
\* string, and the vendor row shows on that side either no value or the trimmed
\* value, not a label, of the entry of the raw record spelled exactly "vendor".
C11_LabelNeverShown ==
    /\ (pc # "164" /\ NoRawLabel(inv)) => inv_n.vendor = ""
    /\ (pc \notin {"164", "165"} /\ NoRawLabel(po)) => po_n.vendor = ""
    /\ (Done /\ NoRawLabel(inv)) =>
           \A r \in RowsFor("vendor") : r.invoice \in {"", strip(get(inv, "vendor"))} /\ ~LabelOnly(r.invoice)
    /\ (Done /\ NoRawLabel(po)) =>
           \A r \in RowsFor("vendor") : r.po \in {"", strip(get(po, "vendor"))} /\ ~LabelOnly(r.po)

C11_Witness ==
    /\ Done /\ NoRawLabel(inv) /\ get(inv, "vendor") = "Seller:"
    /\ \E r \in RowsFor("vendor") : r.invoice = "" /\ r.po # ""

\* a decimal numeral with exactly two fractional digits: digits, a point, two digits
TwoDecimals(s) ==
    /\ Len(s) >= 4 /\ At(s, Len(s) - 2) = "."
    /\ \A i \in (1..Len(s)) \ {Len(s) - 2} : At(s, i) \in Digit

\* C12: for every text _normalize_amount returns the empty string or a decimal
\* numeral with exactly two fractional digits, without thousands separators or
\* currency tokens; it returns "1234.50" for "1,234.50" and "" for "abc".
C12_AmountTotal ==
    pc = "returned" =>
        /\ result = "" \/ TwoDecimals(result)
        /\ inv = "1,234.50" => result = "1234.50"
        /\ inv = "abc" => result = ""

\* two vendor records whose names are the same company name up to letter case,
\* whitespace, periods and commas, and legal suffixes
SameCompany(i, p) ==
    /\ <<i, p>> \in VendorPairs
    /\ {get(i, "vendor"), get(p, "vendor")} \subseteq AcmeNames
       \/ {get(i, "vendor"), get(p, "vendor")} \subseteq SuffixNames

SameNormalized(i, p) == _normalize_company(get(i, "vendor")) = _normalize_company(get(p, "vendor"))

Entries(rec) ==
    IF IsEmptyRec(rec) THEN {}
    ELSE {<<lower(strip(e[1])), e[2]>> :
            e \in {rec.items[i] : i \in {j \in 1..Len(rec.items) : Len(rec.items[j]) = 2}}}

\* the places in the synonym list of f of the synonyms that are keys of the record
PresentSynonyms(rec, f) == {i \in 1..Len(SYNONYMS[f]) : \E e \in Entries(rec) : e[1] = SYNONYMS[f][i]}

\* the values the record holds under the synonym at place i
ValuesAt(rec, f, i) == {e[2] : e \in {x \in Entries(rec) : x[1] = SYNONYMS[f][i]}}

\* what the first synonym present gives, and the empty string when none is present
SynonymValues(rec, f, present) == IF present = {} THEN {""} ELSE ValuesAt(rec, f, LeastOf(present))

\* the canonical value of f is what the first synonym present gives: always for a
\* record without raw text, unless the cleanup of vendor or po_number emptied
\* it, and for a record with raw text whenever that value is not empty
FirstSynonymWins(rec, n, f, vs) ==
    IF RawOf(rec) = "" THEN n[f] \in vs \/ (f \in {"vendor", "po_number"} /\ n[f] = "")
    ELSE (f \in {"date", "currency", "total"} /\ "" \notin vs) => n[f] \in vs

ResolvedByPriority(rec, n) ==
    \A f \in FieldSet : FirstSynonymWins(rec, n, f, SynonymValues(rec, f, PresentSynonyms(rec, f)))

\* C14: each canonical field takes the value of the first synonym, in list order,
\* that is a key of the raw record (lower-cased and trimmed) with a value that is
\* not null; synonyms later in the list are ignored, a key with a null value
\* counts as absent, and with no synonym present the field stays empty.
C14_SynonymPriority ==
    /\ pc # "164" => ResolvedByPriority(inv, inv_n)
    /\ pc \notin {"164", "165"} => ResolvedByPriority(po, po_n)

C14_Witness ==
    /\ pc = "166"
    /\ inv = Dict(<<<<"amount", "5.00">>, <<"total">>, <<"amount due", "7.00">>>>)
    /\ inv_n.total = "7.00"
    /\ PresentSynonyms(po, "vendor") = {} /\ po # NONE /\ po_n.vendor = ""

\* s has n digits in a row
HasDigitRun(s, n) == \E i \in 1..(Len(s) - n + 1) : \A j \in i..(i + n - 1) : At(s, j) \in Digit

\* what the raw text gives for po_number, and nothing without raw text
PoFromRaw(raw) == IF raw = "" THEN "" ELSE FallbackPo(raw)

\* a po_number value v from a synonym key is kept as it is when it has six digits
\* in a row, and is otherwise dropped and the field left to the raw text
KeptOrDropped(rec, n, v) ==
    v # "" => n.po_number = (IF HasDigitRun(v, 6) THEN v ELSE PoFromRaw(RawOf(rec)))

\* C15: a po_number value obtained from a synonym key is kept unchanged if it
\* contains an identifier core, a run of at least 6 consecutive digits, and is
\* otherwise reset to empty, after which the raw-text fallback may fill the field.
C15_PoSanitation ==
    /\ pc # "164" => KeptOrDropped(inv, inv_n, KeyValue(inv, "po_number"))
    /\ pc \notin {"164", "165"} => KeptOrDropped(po, po_n, KeyValue(po, "po_number"))

C15_Witness ==
    /\ pc = "166"
    /\ KeyValue(inv, "po_number") = "rt" /\ RawOf(inv) # "" /\ inv_n.po_number = "1234567"
    /\ KeyValue(po, "po_number") = " AB-1234567 " /\ po_n.po_number = " AB-1234567 "

\* a canonical record whose vendor is no bare label and whose po_number is empty
\* or has six digits in a row
Sanitary(n) == ~LabelOnly(n.vendor) /\ (n.po_number = "" \/ HasDigitRun(n.po_number, 6))

\* C16: whichever path produced the values, synonym key or raw text, the vendor
\* that _normalize_record returns is never a bare "vendor" or "seller" label and
\* the po_number it returns is empty or contains at least 6 consecutive digits.
C16_SanitaryWhateverThePath ==
    /\ pc # "164" => Sanitary(inv_n)
    /\ pc \notin {"164", "165"} => Sanitary(po_n)

\* the value v that the keys give field f, after the cleanup of vendor and po_number
Cleaned(f, v) ==
    IF f = "vendor" /\ LabelOnly(v) THEN ""
    ELSE IF f = "po_number" /\ ~HasDigitRun(v, 6) THEN ""
    ELSE v

\* the field keeps a value from the keys that is not empty, and without raw text
\* it has that value, empty or not
KeptFromKeys(rec, n, f, v) == (v # "" => n[f] = v) /\ (RawOf(rec) = "" => n[f] = v)

FrameOfFallback(rec, n) == \A f \in FieldSet : KeptFromKeys(rec, n, f, Cleaned(f, KeyValue(rec, f)))

\* C17: a canonical field that is not empty after synonym resolution and cleanup
\* is returned unchanged whatever the raw text contains, and a record without a
\* raw-text entry gets exactly the cleaned synonym values.
C17_FallbackFillsOnlyEmpty ==
    /\ pc # "164" => FrameOfFallback(inv, inv_n)
    /\ pc \notin {"164", "165"} => FrameOfFallback(po, po_n)

C17_Witness ==
    /\ pc = "166"
    /\ KeyValue(inv, "currency") = "USD" /\ FallbackCurrency(RawOf(inv)) = "EUR" /\ inv_n.currency = "USD"
    /\ KeyValue(inv, "date") = "" /\ inv_n.date # ""
    /\ RawOf(po) = "" /\ po_n.total = "100.004"

\* of a numeric date md and a textual date mm, the one that starts first in the text
EarlierOf(md, mm) == IF md.start < mm.start THEN md ELSE mm

\* with both kinds of date in the raw text, the date is the earlier of the two
EarliestDate(raw, n, md, mm) == (md.ok /\ mm.ok) => n.date = group(EarlierOf(md, mm), raw, 0)

DateInTextOrder(rec, n) ==
    (KeyValue(rec, "date") = "" /\ RawOf(rec) # "") =>
        EarliestDate(RawOf(rec), n, search(_date_re, RawOf(rec)), search(_month_re, RawOf(rec)))

\* C18: when the date is empty after synonym resolution and the raw text has both
\* a numeric date and a textual month date, the date taken from the raw text is
\* the one of the two that occurs first in the text.
C18_DateInDocumentOrder ==
    /\ pc # "164" => DateInTextOrder(inv, inv_n)
    /\ pc \notin {"164", "165"} => DateInTextOrder(po, po_n)

\* the places where a run of digits of s starts, and where the run from i ends
RunStarts(s) == {i \in 1..Len(s) : At(s, i) \in Digit /\ (i = 1 \/ At(s, i - 1) \notin Digit)}

RunEnd(s, i) == LeastOf({j \in i..Len(s) : j = Len(s) \/ At(s, j + 1) \notin Digit})

\* the runs of six digits or more
LongRuns(s) == {i \in RunStarts(s) : RunEnd(s, i) - i >= 5}

\* the digit core of a token, its first run of six digits or more, and the whole
\* token when it has none
CoreFrom(token, runs) == IF runs = {} THEN token ELSE SubSeq(token, LeastOf(runs), RunEnd(token, LeastOf(runs)))

DigitCore(token) == CoreFrom(token, LongRuns(token))

\* the po_number comes from the "Invoice Number" occurrence mi when there is one,
\* wherever it stands, and from the "PO" occurrence mp only without one
InvoiceNumberFirst(raw, n, mi, mp) ==
    n.po_number = (IF mi.ok THEN DigitCore(group(mi, raw, 1))
                   ELSE IF mp.ok THEN DigitCore(group(mp, raw, 1))
                   ELSE "")

PoPrecedence(rec, n) ==
    (Cleaned("po_number", KeyValue(rec, "po_number")) = "" /\ RawOf(rec) # "") =>
        InvoiceNumberFirst(RawOf(rec), n, search(_inv_re, RawOf(rec)), search(_po_re, RawOf(rec)))

\* C19: when po_number is empty after the cleanup and the raw text is searched,
\* the value comes from the "Invoice Number: <id>" occurrence whenever there is
\* one, whatever its place relative to a "PO" occurrence, and from the "PO"
\* occurrence only when there is none; what is stored is the digit core of the
\* identifier when it has one, and the whole matched token otherwise.
C19_InvoiceNumberBeforePo ==
    /\ pc # "164" => PoPrecedence(inv, inv_n)
    /\ pc \notin {"164", "165"} => PoPrecedence(po, po_n)

C19_Witness ==
    /\ pc = "166"
    /\ RawOf(inv) = "PO 123456 then Invoice Number: 7" /\ inv_n.po_number = "7"
    /\ RawOf(po) = "Invoice Number: INV-000987654 and PO 44" /\ po_n.po_number = "000987654"

\* a result with the invoice and po values of every row exchanged
MirrorRow(r) == [field |-> r.field, invoice |-> r.po, po |-> r.invoice, status |-> r.status]

Mirror(res) ==
    [df |-> [columns |-> res.df.columns, rows |-> [i \in 1..Len(res.df.rows) |-> MirrorRow(res.df.rows[i])]],
     mismatches |-> res.mismatches]

\* C20: compare_records(po, inv) returns the rows of compare_records(inv, po),
\* the same fields in the same order with the same status, with the invoice and
\* po values exchanged, and the same mismatch count.
C20_SideSymmetry == (Done /\ first # UNSET) => result = Mirror(first)

C20_Witness ==
    /\ Done /\ first # UNSET /\ result.mismatches > 0
    /\ \E r \in RowSet : r.status = "missing" /\ r.invoice = "" /\ r.po # ""
    /\ \E r \in RowSet : r.status = "mismatch" /\ r.field = "total"

\* the attachments that the documents of a list come from
Attachments(docs) == [i \in 1..Len(docs) |-> <<docs[i].email_id, docs[i].attachment>>]

NoRepeat(s) == \A i, j \in 1..Len(s) : s[i] = s[j] => i = j

====
